---- MODULE Spec2Model ----
(***************************************************************************)
(* Connection resolution and tool dispatch of opensearch-mcp-server-py.   *)
(*                                                                         *)
(* Python strings are sequences of tokens (<<>> is the empty string), so   *)
(* truthiness, urlparse, startswith and lower() are computed, not assumed. *)
(* An optional value (None / unset environment variable) is the empty set, *)
(* a present value v is {v}.                                               *)
(***************************************************************************)
EXTENDS Naturals, Sequences, FiniteSets, TLC

VARIABLES
    cluster_registry,   \* clusters_information.cluster_registry: insertion-ordered name -> ClusterInfo
    env,                \* os.environ
    arg_profile,        \* client.arg_profile (module global)
    last,               \* the request being answered: its inputs, its outcome, its effects in order
    enabled_tools,      \* local_streaming_server: the catalog create_local_mcp_server closes over
    built               \* history: the OpenSearch objects constructed so far, in order

vars == <<cluster_registry, env, arg_profile, last, enabled_tools, built>>

----------------------------------------------------------------------------
(* Python values *)

None == {}
Some(v) == {v}
Val(m) == CHOOSE v \in m : TRUE

EmptyStr == <<>>
Truthy(s) == s # EmptyStr

Str(t) == <<t>>

UpperToLower ==
    [c \in {"A", "E", "F", "L", "R", "S", "T", "U"} |->
        CASE c = "A" -> "a" [] c = "E" -> "e" [] c = "F" -> "f" [] c = "L" -> "l"
          [] c = "R" -> "r" [] c = "S" -> "s" [] c = "T" -> "t" [] c = "U" -> "u"]

\* str.lower(), character by character
LowerChar(c) == IF c \in DOMAIN UpperToLower THEN UpperToLower[c] ELSE c
Lower(s) == [i \in 1..Len(s) |-> LowerChar(s[i])]

\* urllib.parse.urlparse(url).scheme: the token before "://"
urlparse_scheme(url) == IF Len(url) >= 2 /\ url[2] = "://" THEN url[1] ELSE ""

\* os.getenv(name, default)
getenv(name, default) == IF env[name] = None THEN default ELSE Val(env[name])

----------------------------------------------------------------------------
(* Bounded input domains *)

MaxClusters == 2

LocalUrl == <<"http", "://", "localhost:9200">>
RemoteUrl == <<"https", "://", "a">>
OtherUrl == <<"https", "://", "b">>

StrFalse == <<"f", "a", "l", "s", "e">>
StrFalseCap == <<"F", "a", "l", "s", "e">>
StrTrue == <<"t", "r", "u", "e">>
StrTrueCap == <<"T", "R", "U", "E">>

Names == {Str("prod"), Str("staging"), Str("dev")}

EnvNames ==
    {"OPENSEARCH_URL", "OPENSEARCH_USERNAME", "OPENSEARCH_PASSWORD", "AWS_IAM_ARN",
     "AWS_PROFILE", "AWS_REGION", "OPENSEARCH_SSL_VERIFY", "AWS_OPENSEARCH_SERVERLESS"}

AwsProfiles == {EmptyStr, Str("awsdev")}

ClusterInfos ==
    [opensearch_url : {LocalUrl, RemoteUrl},
     opensearch_username : {EmptyStr, Str("admin")},
     opensearch_password : {EmptyStr, Str("secret")},
     aws_region : {EmptyStr, Str("us-east-1")},
     iam_arn : {EmptyStr, Str("arn:role/search")},
     profile : AwsProfiles,
     is_serverless : BOOLEAN,
     verify_certs : {None, Some(TRUE), Some(FALSE)}]

Sites == {"iam", "basic", "ambient-aws", "none"}

----------------------------------------------------------------------------
(* clusters_information *)

RegistryNames == {cluster_registry[i].name : i \in 1..Len(cluster_registry)}

\* get_cluster(name): exact-name lookup, None when the name is absent
get_cluster(name) ==
    IF name \in RegistryNames
    THEN Some((CHOOSE e \in {cluster_registry[i] : i \in 1..Len(cluster_registry)} :
                   e.name = name).info)
    ELSE None


----------------------------------------------------------------------------
(* opensearch/client.py: initialize_client_with_cluster, field resolution *)

\* opensearch_url = cluster_info.opensearch_url if cluster_info else os.getenv('OPENSEARCH_URL', '')
OpensearchUrl(cluster_info) ==
    IF cluster_info # None THEN Val(cluster_info).opensearch_url
    ELSE getenv("OPENSEARCH_URL", EmptyStr)

OpensearchUsername(cluster_info) ==
    IF cluster_info # None THEN Val(cluster_info).opensearch_username
    ELSE getenv("OPENSEARCH_USERNAME", EmptyStr)

OpensearchPassword(cluster_info) ==
    IF cluster_info # None THEN Val(cluster_info).opensearch_password
    ELSE getenv("OPENSEARCH_PASSWORD", EmptyStr)

\* aws_region = cluster_info.aws_region if cluster_info else ''
ExplicitRegion(cluster_info) ==
    IF cluster_info # None THEN Val(cluster_info).aws_region ELSE EmptyStr

IamArn(cluster_info) ==
    IF cluster_info # None THEN Val(cluster_info).iam_arn
    ELSE getenv("AWS_IAM_ARN", EmptyStr)

\* profile = cluster_info.profile if cluster_info else arg_profile; falls back to AWS_PROFILE
Profile(cluster_info) ==
    LET profile == IF cluster_info # None THEN Val(cluster_info).profile
                   ELSE IF arg_profile # None THEN Val(arg_profile) ELSE EmptyStr
    IN IF ~Truthy(profile) THEN getenv("AWS_PROFILE", EmptyStr) ELSE profile

\* mutant: the environment flag is compared without lower()
is_serverlessCaseSensitive(cluster_info) ==
    IF cluster_info # None THEN Val(cluster_info).is_serverless
    ELSE getenv("AWS_OPENSEARCH_SERVERLESS", EmptyStr) = StrTrue

\* is_serverless(cluster_info) for a ClusterInfo or None argument
is_serverless(cluster_info) ==
    IF cluster_info # None THEN Val(cluster_info).is_serverless
    ELSE Lower(getenv("AWS_OPENSEARCH_SERVERLESS", EmptyStr)) = StrTrue

OPENSEARCH_SERVICE == "es"
OPENSEARCH_SERVERLESS_SERVICE == "aoss"

ServiceName(cluster_info) ==
    IF is_serverless(cluster_info) THEN OPENSEARCH_SERVERLESS_SERVICE ELSE OPENSEARCH_SERVICE

ProfileSetsVerify(cluster_info) ==
    cluster_info # None /\ Val(cluster_info).verify_certs # None

\* mutant: the environment variable, when set, overrides the profile
VerifyCertsEnvFirst(cluster_info) ==
    IF env["OPENSEARCH_SSL_VERIFY"] # None \/ ~ProfileSetsVerify(cluster_info)
    THEN Lower(getenv("OPENSEARCH_SSL_VERIFY", StrTrue)) # StrFalse
    ELSE Val(Val(cluster_info).verify_certs)

\* mutant: the environment value enables verification only when it reads 'true'
VerifyCertsOnlyTrue(cluster_info) ==
    IF ProfileSetsVerify(cluster_info) THEN Val(Val(cluster_info).verify_certs)
    ELSE Lower(getenv("OPENSEARCH_SSL_VERIFY", StrTrue)) = StrTrue

\* verify_certs: cluster config takes precedence over environment
VerifyCerts(cluster_info) ==
    IF ProfileSetsVerify(cluster_info) THEN Val(Val(cluster_info).verify_certs)
    ELSE Lower(getenv("OPENSEARCH_SSL_VERIFY", StrTrue)) # StrFalse

VerifyEvents(cluster_info) ==
    <<IF ProfileSetsVerify(cluster_info) THEN "log:[SSL] Using cluster verify_certs setting"
      ELSE "log:[SSL] Using environment verify_certs setting",
      "log:[SSL] Final verify_certs setting">>

\* client_kwargs as first assigned
CommonKwargs(opensearch_url, verify_certs) ==
    [hosts |-> opensearch_url,
     use_ssl |-> (urlparse_scheme(opensearch_url) = "https"),
     verify_certs |-> verify_certs,
     connection_class |-> "RequestsHttpConnection",
     http_auth |-> None,
     ssl_assert_hostname |-> None,
     ssl_context |-> None,
     ssl_show_warn |-> None]

SslBypassApplies(opensearch_url, verify_certs) ==
    ~verify_certs /\ urlparse_scheme(opensearch_url) = "https"

\* mutant: the warning is silenced but no permissive SSL context is installed
SslBypassWithoutContext(kwargs, opensearch_url, verify_certs) ==
    IF SslBypassApplies(opensearch_url, verify_certs)
    THEN [kwargs EXCEPT !.ssl_show_warn = Some(FALSE)]
    ELSE kwargs

\* the additional SSL configuration when verify_certs is False
SslBypass(kwargs, opensearch_url, verify_certs) ==
    IF SslBypassApplies(opensearch_url, verify_certs)
    THEN [kwargs EXCEPT !.ssl_assert_hostname = Some(FALSE),
                        !.ssl_context = Some([check_hostname |-> FALSE, verify_mode |-> "CERT_NONE"]),
                        !.ssl_show_warn = Some(FALSE)]
    ELSE kwargs

SslBypassEvents(opensearch_url, verify_certs) ==
    IF SslBypassApplies(opensearch_url, verify_certs)
    THEN <<"log:[SSL] Applying SSL bypass configuration",
           "log:[SSL] SSL bypass configuration applied">>
    ELSE <<>>

ServerlessEvents(cluster_info) ==
    IF is_serverless(cluster_info) THEN <<"log:Using OpenSearch Serverless">> ELSE <<>>

\* mutant: AWS_REGION is consulted before the session's region
RegionEnvFirst(cluster_info, x) ==
    IF ~Truthy(ExplicitRegion(cluster_info))
    THEN IF Truthy(getenv("AWS_REGION", EmptyStr)) THEN getenv("AWS_REGION", EmptyStr)
         ELSE x.session_region
    ELSE ExplicitRegion(cluster_info)

\* if not aws_region: aws_region = session.region_name or os.getenv('AWS_REGION', '')
Region(cluster_info, x) ==
    IF ~Truthy(ExplicitRegion(cluster_info))
    THEN IF Truthy(x.session_region) THEN x.session_region ELSE getenv("AWS_REGION", EmptyStr)
    ELSE ExplicitRegion(cluster_info)

----------------------------------------------------------------------------
(* opensearch/client.py: initialize_client_with_cluster, the strategy chain *)

(* x holds the outcomes of the external calls of one build:                 *)
(*   session_ok      boto3.Session(profile_name=profile) returns (it raises *)
(*                   ProfileNotFound for a profile name that is not         *)
(*                   configured)                                            *)
(*   session_region  session.region_name                                    *)
(*   assume_role     "ok" or "raise": sts_client.assume_role / AWS4Auth     *)
(*   get_credentials "creds", "none" or "raise": session.get_credentials()  *)
(*   ctor_raises     the return sites at which the OpenSearch constructor   *)
(*                   raises                                                 *)
SessionRegions == {EmptyStr, Str("eu-west-1")}

\* the constructor raises at no return site, or at one
AtMostOne(sites) == {{}} \cup {{site} : site \in sites}

HasBasic(cluster_info) ==
    Truthy(OpensearchUsername(cluster_info)) /\ Truthy(OpensearchPassword(cluster_info))

Externals(cluster_info) ==
    LET iam == Truthy(IamArn(cluster_info))
        basic == HasBasic(cluster_info)
    IN [session_ok : IF Truthy(Profile(cluster_info)) THEN BOOLEAN ELSE {TRUE},
        session_region : IF Truthy(ExplicitRegion(cluster_info)) THEN {EmptyStr}
                         ELSE SessionRegions,
        assume_role : IF iam THEN {"ok", "raise"} ELSE {"ok"},
        get_credentials : IF basic THEN {"creds"} ELSE {"creds", "none", "raise"},
        ctor_raises : AtMostOne((IF iam THEN {"iam"} ELSE {})
                                \cup (IF basic THEN {"basic"} ELSE {"ambient-aws", "none"}))]

Pending(client_kwargs, events) ==
    [done |-> FALSE, outcome |-> "pending", exc |-> "", mechanism |-> "",
     aws_region |-> EmptyStr, session_region |-> None, locals |-> None,
     client_kwargs |-> client_kwargs, events |-> events]

\* return the OpenSearch constructor at a return site
Returned(b, site, events) ==
    [b EXCEPT !.done = TRUE, !.outcome = "client", !.mechanism = site,
              !.events = b.events \o events \o <<"OpenSearch:" \o site>>]

\* an exception leaves initialize_client_with_cluster
Raised(b, exc, events) ==
    [b EXCEPT !.done = TRUE, !.outcome = "raised", !.exc = exc,
              !.events = b.events \o events]

StsAuth(cluster_info, aws_region) ==
    [kind |-> "AWS4Auth", id |-> Str("AssumedAccessKeyId"), secret |-> Str("AssumedSecretAccessKey"),
     region |-> aws_region, service |-> ServiceName(cluster_info),
     session_token |-> TRUE, refreshable |-> FALSE]

BasicAuth(cluster_info) ==
    [kind |-> "tuple", id |-> OpensearchUsername(cluster_info),
     secret |-> OpensearchPassword(cluster_info),
     region |-> EmptyStr, service |-> "", session_token |-> FALSE, refreshable |-> FALSE]

AmbientAuth(cluster_info, aws_region) ==
    [kind |-> "AWS4Auth", id |-> Str("SessionAccessKeyId"), secret |-> Str("SessionSecretAccessKey"),
     region |-> aws_region, service |-> ServiceName(cluster_info),
     session_token |-> FALSE, refreshable |-> TRUE]

\* the local variables assigned at lines 91-120
Locals(cluster_info) ==
    [opensearch_username |-> OpensearchUsername(cluster_info),
     opensearch_password |-> OpensearchPassword(cluster_info),
     iam_arn |-> IamArn(cluster_info),
     profile |-> Profile(cluster_info),
     is_serverless_mode |-> is_serverless(cluster_info),
     verify_certs |-> VerifyCerts(cluster_info)]

\* lines 91-155: the locals, service name, verify_certs, client_kwargs and their log records
Configure(cluster_info) ==
    LET opensearch_url == OpensearchUrl(cluster_info)
        verify_certs == VerifyCerts(cluster_info)
        b == Pending(SslBypass(CommonKwargs(opensearch_url, verify_certs),
                               opensearch_url, verify_certs),
                     ServerlessEvents(cluster_info) \o VerifyEvents(cluster_info)
                         \o SslBypassEvents(opensearch_url, verify_certs))
    IN [b EXCEPT !.locals = Some(Locals(cluster_info))]

\* mutant: the role assumption is made outside the try block
TryIamUncaught(b, cluster_info, x) ==
    IF ~Truthy(IamArn(cluster_info)) THEN b
    ELSE IF ~Truthy(b.aws_region)
    THEN [b EXCEPT !.events = @ \o <<"log:[IAM AUTH] Using IAM role authentication",
                                      "log:[IAM AUTH] Failed to assume IAM role">>]
    ELSE IF x.assume_role = "raise"
    THEN Raised(b, "ClientError", <<"log:[IAM AUTH] Using IAM role authentication",
                                    "assume_role:raise">>)
    ELSE LET b1 == [b EXCEPT !.client_kwargs.http_auth = Some(StsAuth(cluster_info, b.aws_region))]
             ev == <<"log:[IAM AUTH] Using IAM role authentication", "assume_role:ok">>
         IN IF "iam" \in x.ctor_raises
            THEN [b1 EXCEPT !.events = @ \o ev \o <<"OpenSearch:iam:raise",
                                                    "log:[IAM AUTH] Failed to assume IAM role">>]
            ELSE Returned(b1, "iam", ev)

\* 1. Try IAM auth
TryIam(b, cluster_info, x) ==
    IF ~Truthy(IamArn(cluster_info)) THEN b
    ELSE IF ~Truthy(b.aws_region)
    THEN [b EXCEPT !.events = @ \o <<"log:[IAM AUTH] Using IAM role authentication",
                                      "log:[IAM AUTH] Failed to assume IAM role">>]
    ELSE IF x.assume_role = "raise"
    THEN [b EXCEPT !.events = @ \o <<"log:[IAM AUTH] Using IAM role authentication",
                                      "assume_role:raise",
                                      "log:[IAM AUTH] Failed to assume IAM role">>]
    ELSE LET b1 == [b EXCEPT !.client_kwargs.http_auth = Some(StsAuth(cluster_info, b.aws_region))]
             ev == <<"log:[IAM AUTH] Using IAM role authentication", "assume_role:ok">>
         IN IF "iam" \in x.ctor_raises
            THEN [b1 EXCEPT !.events = @ \o ev \o <<"OpenSearch:iam:raise",
                                                    "log:[IAM AUTH] Failed to assume IAM role">>]
            ELSE Returned(b1, "iam", ev)

\* 2. Try basic auth
TryBasic(b, cluster_info, x) ==
    IF ~HasBasic(cluster_info) THEN b
    ELSE LET b1 == [b EXCEPT !.client_kwargs.http_auth = Some(BasicAuth(cluster_info))]
             ev == <<"log:[BASIC AUTH] Using basic authentication">>
         IN IF "basic" \in x.ctor_raises
            THEN Raised(b1, "OpenSearch", ev \o <<"OpenSearch:basic:raise">>)
            ELSE Returned(b1, "basic", ev)

\* mutant: the signer is built without checking that a region was found
TryAmbientNoRegionCheck(b, cluster_info, x) ==
    LET ev == <<"log:[AWS CREDS] Using AWS credentials authentication">>
        failed == <<"log:[AWS CREDS] Failed to get AWS credentials">>
    IN IF x.get_credentials = "raise"
       THEN [b EXCEPT !.events = @ \o ev \o <<"get_credentials:raise">> \o failed]
       ELSE IF x.get_credentials = "none"
       THEN [b EXCEPT !.events = @ \o ev \o <<"get_credentials:none">>]
       ELSE LET b1 == [b EXCEPT !.client_kwargs.http_auth = Some(AmbientAuth(cluster_info, b.aws_region))]
                ev1 == ev \o <<"get_credentials:creds">>
            IN IF "ambient-aws" \in x.ctor_raises
               THEN [b1 EXCEPT !.events = @ \o ev1 \o <<"OpenSearch:ambient-aws:raise">> \o failed]
               ELSE Returned(b1, "ambient-aws", ev1)

\* mutant: the signer is built without checking that credentials were found
TryAmbientNoCredentialCheck(b, cluster_info, x) ==
    LET ev == <<"log:[AWS CREDS] Using AWS credentials authentication">>
        failed == <<"log:[AWS CREDS] Failed to get AWS credentials">>
    IN IF x.get_credentials = "raise"
       THEN [b EXCEPT !.events = @ \o ev \o <<"get_credentials:raise">> \o failed]
       ELSE IF ~Truthy(b.aws_region)
       THEN [b EXCEPT !.events = @ \o ev \o <<"get_credentials:" \o x.get_credentials>> \o failed]
       ELSE LET b1 == [b EXCEPT !.client_kwargs.http_auth = Some(AmbientAuth(cluster_info, b.aws_region))]
                ev1 == ev \o <<"get_credentials:" \o x.get_credentials>>
            IN IF "ambient-aws" \in x.ctor_raises
               THEN [b1 EXCEPT !.events = @ \o ev1 \o <<"OpenSearch:ambient-aws:raise">> \o failed]
               ELSE Returned(b1, "ambient-aws", ev1)

\* mutant: the strategy has no except clause, so what it raises leaves the build
TryAmbientUncaught(b, cluster_info, x) ==
    LET ev == <<"log:[AWS CREDS] Using AWS credentials authentication">>
    IN IF x.get_credentials = "raise"
       THEN Raised(b, "Boto3Error", ev \o <<"get_credentials:raise">>)
       ELSE IF ~Truthy(b.aws_region)
       THEN Raised(b, "RuntimeError", ev \o <<"get_credentials:" \o x.get_credentials>>)
       ELSE IF x.get_credentials = "none"
       THEN [b EXCEPT !.events = @ \o ev \o <<"get_credentials:none">>]
       ELSE LET b1 == [b EXCEPT !.client_kwargs.http_auth = Some(AmbientAuth(cluster_info, b.aws_region))]
                ev1 == ev \o <<"get_credentials:creds">>
            IN IF "ambient-aws" \in x.ctor_raises
               THEN Raised(b1, "OpenSearch", ev1 \o <<"OpenSearch:ambient-aws:raise">>)
               ELSE Returned(b1, "ambient-aws", ev1)

\* 3. Try to get credentials from boto3 session
TryAmbient(b, cluster_info, x) ==
    LET ev == <<"log:[AWS CREDS] Using AWS credentials authentication">>
        failed == <<"log:[AWS CREDS] Failed to get AWS credentials">>
    IN IF x.get_credentials = "raise"
       THEN [b EXCEPT !.events = @ \o ev \o <<"get_credentials:raise">> \o failed]
       ELSE IF ~Truthy(b.aws_region)
       THEN [b EXCEPT !.events = @ \o ev \o <<"get_credentials:" \o x.get_credentials>> \o failed]
       ELSE IF x.get_credentials = "none"
       THEN [b EXCEPT !.events = @ \o ev \o <<"get_credentials:none">>]
       ELSE LET b1 == [b EXCEPT !.client_kwargs.http_auth = Some(AmbientAuth(cluster_info, b.aws_region))]
                ev1 == ev \o <<"get_credentials:creds">>
            IN IF "ambient-aws" \in x.ctor_raises
               THEN [b1 EXCEPT !.events = @ \o ev1 \o <<"OpenSearch:ambient-aws:raise">> \o failed]
               ELSE Returned(b1, "ambient-aws", ev1)

\* 4. Try no authentication (for local development)
NoAuth(b, cluster_info, x) ==
    LET ev == <<"log:[NO AUTH] Using no authentication">>
    IN IF "none" \in x.ctor_raises
       THEN Raised(b, "OpenSearch", ev \o <<"OpenSearch:none:raise">>)
       ELSE Returned(b, "none", ev)

\* session = boto3.Session(profile_name=profile) if profile else boto3.Session(),
\* then the region fallback; session_region is what session.region_name returned, when
\* it was read
OpenSession(b, cluster_info, x) ==
    IF Truthy(Profile(cluster_info)) /\ ~x.session_ok
    THEN Raised(b, "ProfileNotFound", <<"Session:raise">>)
    ELSE [b EXCEPT !.events = @ \o <<"Session:ok">>, !.aws_region = Region(cluster_info, x),
                   !.session_region = IF ~Truthy(ExplicitRegion(cluster_info))
                                      THEN Some(x.session_region) ELSE None]

\* the strategies in the order the function tries them
Strategies(b, cluster_info, x) ==
    LET b1 == TryIam(b, cluster_info, x)
        b2 == IF b1.done THEN b1 ELSE TryBasic(b1, cluster_info, x)
        b3 == IF b2.done THEN b2 ELSE TryAmbient(b2, cluster_info, x)
    IN IF b3.done THEN b3 ELSE NoAuth(b3, cluster_info, x)

initialize_client_with_cluster(cluster_info, x) ==
    IF ~Truthy(OpensearchUrl(cluster_info))
    THEN Raised(Pending(CommonKwargs(EmptyStr, TRUE), <<>>), "ValueError", <<>>)
    ELSE LET b == OpenSession(Configure(cluster_info), cluster_info, x)
         IN IF b.done THEN b ELSE Strategies(b, cluster_info, x)

----------------------------------------------------------------------------
(* opensearch/client.py: initialize_client and set_profile *)

Idle ==
    [op |-> "idle", args |-> None, cluster_info |-> None, outcome |-> "idle", exc |-> "",
     mechanism |-> "", aws_region |-> EmptyStr, session_region |-> None, locals |-> None,
     client |-> None,
     events |-> <<>>, tool |-> "", request |-> None, reply |-> None, message |-> EmptyStr]

\* mutant: the default is the most recently added cluster
ResolveClusterNewest(args) ==
    IF args # None /\ Truthy(Val(args))
    THEN [cluster_info |-> get_cluster(Val(args)), events |-> <<>>]
    ELSE IF cluster_registry # <<>>
    THEN [cluster_info |-> Some(cluster_registry[Len(cluster_registry)].info),
          events |-> <<"log:No cluster specified, using first available cluster">>]
    ELSE [cluster_info |-> None, events |-> <<>>]

\* the cluster_info initialize_client passes on, and what it logs
ResolveCluster(args) ==
    IF args # None /\ Truthy(Val(args))
    THEN [cluster_info |-> get_cluster(Val(args)), events |-> <<>>]
    ELSE IF cluster_registry # <<>>
    THEN [cluster_info |-> Some(cluster_registry[1].info),
          events |-> <<"log:No cluster specified, using first available cluster">>]
    ELSE [cluster_info |-> None, events |-> <<>>]

\* mutant: the default cluster is taken out of the registry (popitem) instead of read
initialize_clientPopsDefault(args, x) ==
    /\ last.op = "idle"
    /\ LET rc == ResolveCluster(args)
           b == initialize_client_with_cluster(rc.cluster_info, x)
       IN /\ last' = [Idle EXCEPT !.op = "initialize_client",
                                  !.args = args,
                                  !.cluster_info = rc.cluster_info,
                                  !.outcome = b.outcome,
                                  !.exc = b.exc,
                                  !.mechanism = b.mechanism,
                                  !.aws_region = b.aws_region,
                               !.session_region = b.session_region,
                                  !.locals = b.locals,
                                  !.client = IF b.outcome = "client" THEN Some(b.client_kwargs) ELSE None,
                                  !.events = rc.events \o b.events]
          /\ cluster_registry' = IF rc.events # <<>> THEN Tail(cluster_registry)
                                 ELSE cluster_registry
    /\ UNCHANGED <<env, arg_profile, enabled_tools>>

initialize_client(args, x) ==
    /\ last.op = "idle"
    /\ LET rc == ResolveCluster(args)
           b == initialize_client_with_cluster(rc.cluster_info, x)
       IN last' = [Idle EXCEPT !.op = "initialize_client",
                               !.args = args,
                               !.cluster_info = rc.cluster_info,
                               !.outcome = b.outcome,
                               !.exc = b.exc,
                               !.mechanism = b.mechanism,
                               !.aws_region = b.aws_region,
                               !.session_region = b.session_region,
                               !.locals = b.locals,
                               !.client = IF b.outcome = "client" THEN Some(b.client_kwargs) ELSE None,
                               !.events = rc.events \o b.events]
    /\ UNCHANGED <<cluster_registry, env, arg_profile, enabled_tools>>

set_profile(profile) ==
    /\ last.op = "idle"
    /\ arg_profile' = Some(profile)
    /\ UNCHANGED <<cluster_registry, env, last, enabled_tools>>

\* the reply has left the handler; the next request can be taken
Respond ==
    /\ last.op # "idle"
    /\ last' = Idle
    /\ UNCHANGED <<cluster_registry, env, arg_profile, enabled_tools>>

----------------------------------------------------------------------------
(* clusters_information: registration *)

\* register(profile): fails with ConfigError when the endpoint URL is empty; otherwise
\* cluster_registry[name] = info: a new name is appended, a known name keeps its place
Register(name, info) ==
    /\ last.op = "idle"
    /\ IF ~Truthy(info.opensearch_url)
       THEN /\ last' = [Idle EXCEPT !.op = "register", !.args = Some(name),
                                    !.outcome = "raised", !.exc = "ConfigError"]
            /\ UNCHANGED cluster_registry
       ELSE /\ IF name \in RegistryNames
               THEN cluster_registry' =
                        [i \in 1..Len(cluster_registry) |->
                            IF cluster_registry[i].name = name
                            THEN [name |-> name, info |-> info] ELSE cluster_registry[i]]
               ELSE /\ Len(cluster_registry) < MaxClusters
                    /\ cluster_registry' = Append(cluster_registry, [name |-> name, info |-> info])
            /\ UNCHANGED last
    /\ UNCHANGED <<env, arg_profile, enabled_tools>>

----------------------------------------------------------------------------
(* mcp_server_opensearch/simple_local_server.py *)

DefaultSize == 10
SizeCap == 100

\* mutant: the requested size is passed on as it is
MinKeepsFirst(a, b) == a

Min(a, b) == IF a < b THEN a ELSE b

\* str.startswith('https') on a tokenised URL
StartsWithHttps(url) == url # EmptyStr /\ url[1] = "https"

\* get_local_opensearch_client(): client_kwargs
LocalClientKwargs ==
    LET opensearch_url == getenv("OPENSEARCH_URL", LocalUrl)
    IN [hosts |-> opensearch_url,
        use_ssl |-> StartsWithHttps(opensearch_url),
        verify_certs |-> FALSE,
        connection_class |-> "default",
        http_auth |-> None,
        ssl_assert_hostname |-> None,
        ssl_context |-> None,
        ssl_show_warn |-> Some(FALSE)]

ToolNames == {"search_logs_by_keyword", "search_logs_advanced", "list_log_indices", "cluster_health"}

\* arguments.get(key, default)
ArgGet(arguments, key, default) ==
    IF arguments[key] = None THEN default ELSE Val(arguments[key])

\* a query dict is falsy when it has no key at all
QueryTruthy(q) == q.has_query \/ q.size # None

ErrorReply(name, cause) ==
    [is_error |-> TRUE, text |-> <<"Error executing ", name, ": ">> \o cause]

TextReply(text) == [is_error |-> FALSE, text |-> text]

\* what the backend call of a tool raises, if it raises
BackendCause == <<"ConnectionTimeout caused by backend">>

\* one branch of call_tool's try block, after the client is built:
\* [request: what is sent to the backend, if anything; raised: str(e) of the exception
\*  raised, or None; text: the reply text when nothing is raised]
Validated(req, text, backend) ==
    [request |-> Some(req), text |-> text,
     raised |-> IF backend = "raise" THEN Some(BackendCause) ELSE None]

Rejected(cause) == [request |-> None, text |-> <<>>, raised |-> Some(cause)]

\* mutant: the keyword is not checked and the search is sent
search_logs_by_keywordUnchecked(name, arguments, backend) ==
    LET keyword == ArgGet(arguments, "keyword", EmptyStr)
        size == Min(ArgGet(arguments, "size", DefaultSize), SizeCap)
    IN Validated([api |-> "search", index |-> ArgGet(arguments, "index_pattern", Str("*")),
                  size |-> Some(size)],
                 <<"logs containing ">> \o keyword, backend)

\* if name == 'search_logs_by_keyword'
search_logs_by_keyword(name, arguments, backend) ==
    LET keyword == ArgGet(arguments, "keyword", EmptyStr)
        size == Min(ArgGet(arguments, "size", DefaultSize), SizeCap)
    IN IF ~Truthy(keyword)
       THEN Rejected(<<"'", "keyword", "' is required for log search">>)
       ELSE Validated([api |-> "search", index |-> ArgGet(arguments, "index_pattern", Str("*")),
                       size |-> Some(size)],
                      <<"logs containing ">> \o keyword, backend)

\* elif name == 'search_logs_advanced'
search_logs_advanced(name, arguments, backend) ==
    LET has == arguments["query"] # None /\ QueryTruthy(Val(arguments["query"]))
        size == ArgGet(arguments, "size", DefaultSize)
        query == Val(arguments["query"])
    IN IF ~has
       THEN Rejected(<<"'", "query", "' is required for advanced search">>)
       ELSE Validated([api |-> "search", index |-> ArgGet(arguments, "index_pattern", Str("*")),
                       size |-> IF query.size = None THEN Some(size) ELSE query.size],
                      <<"json:search response">>, backend)

\* elif name == 'list_log_indices'
list_log_indices(name, arguments, backend) ==
    Validated([api |-> "cat.indices", index |-> EmptyStr, size |-> None], <<"indices">>, backend)

\* elif name == 'cluster_health'
cluster_health(name, arguments, backend) ==
    Validated([api |-> "cluster.health", index |-> EmptyStr, size |-> None],
              <<"json:cluster health">>, backend)

\* mutant: the last branch is a plain else, so an unknown name runs cluster_health
UnknownToolRunsHealth(name, arguments, backend) ==
    Validated([api |-> "cluster.health", index |-> EmptyStr, size |-> None],
              <<"json:cluster health">>, backend)

\* else: raise ValueError(f'Unknown tool: {name}')
UnknownTool(name, arguments, backend) == Rejected(<<"Unknown tool: ", name>>)

ToolBody(name, arguments, backend) ==
    CASE name = "search_logs_by_keyword" -> search_logs_by_keyword(name, arguments, backend)
      [] name = "search_logs_advanced" -> search_logs_advanced(name, arguments, backend)
      [] name = "list_log_indices" -> list_log_indices(name, arguments, backend)
      [] name = "cluster_health" -> cluster_health(name, arguments, backend)
      [] OTHER -> UnknownTool(name, arguments, backend)

Sizes == {5, 100, 101}

NoArguments == [keyword |-> None, index_pattern |-> None, size |-> None, query |-> None]

\* argument payloads: the keys a tool reads vary, the others are absent
ArgumentChoices(name) ==
    CASE name = "search_logs_by_keyword" ->
           {[NoArguments EXCEPT !.keyword = k, !.size = n, !.index_pattern = ix] :
               k \in {None, Some(EmptyStr), Some(Str("error"))},
               n \in {None} \cup {Some(m) : m \in Sizes},
               ix \in {None, Some(Str("logs-*"))}}
      [] name = "search_logs_advanced" ->
           {[NoArguments EXCEPT !.query = q, !.size = n] :
               q \in {None, Some([has_query |-> FALSE, size |-> None]),
                      Some([has_query |-> TRUE, size |-> None]),
                      Some([has_query |-> TRUE, size |-> Some(500)])},
               n \in {None, Some(5)}}
      [] OTHER -> {NoArguments, [NoArguments EXCEPT !.keyword = Some(Str("error"))]}

\* call_tool(name, arguments) of create_simple_local_server
simple_call_tool(name, arguments, ctor_ok, backend) ==
    /\ last.op = "idle"
    /\ LET kwargs == LocalClientKwargs
           body == ToolBody(name, arguments, backend)
       IN last' =
            IF ~ctor_ok
            THEN [Idle EXCEPT !.op = "simple_call_tool", !.tool = name, !.outcome = "replied",
                              !.args = Some(arguments),
                              !.events = <<"OpenSearch:local:raise">>,
                              !.reply = Some(ErrorReply(name, <<"OpenSearch constructor failed">>))]
            ELSE [Idle EXCEPT !.op = "simple_call_tool", !.tool = name, !.outcome = "replied",
                              !.args = Some(arguments),
                              !.mechanism = "none",
                              !.client = Some(kwargs),
                              !.request = body.request,
                              !.events = <<"OpenSearch:local">>
                                           \o (IF body.request # None
                                               THEN <<"backend:" \o Val(body.request).api>> ELSE <<>>)
                                           \o (IF body.request # None /\ backend = "raise"
                                               THEN <<"operation:raise">> ELSE <<>>),
                              !.reply = IF body.raised # None
                                        THEN Some(ErrorReply(name, Val(body.raised)))
                                        ELSE Some(TextReply(body.text))]
    /\ UNCHANGED <<cluster_registry, env, arg_profile, enabled_tools>>

----------------------------------------------------------------------------
(* mcp_server_opensearch/local_streaming_server.py *)

\* the argument fields of the catalog's tools, in schema order
ToolFields == <<"index", "query">>

\* tools.tool_filter.get_tools('single', ''): name -> the fields its args_model requires
ToolCatalog ==
    [name \in {"SearchIndexTool", "ListIndexTool"} |->
        [required |-> IF name = "SearchIndexTool" THEN {"index", "query"} ELSE {}]]

\* 'localhost:9200' in opensearch_url, on a tokenised URL
HasLocalhost(url) == \E i \in 1..Len(url) : url[i] = "localhost:9200"

\* mutant: after a failed generation the catalog of tools is served all the same
create_local_mcp_serverKeepsTools(generated) ==
    /\ last.op = "idle"
    /\ enabled_tools = None
    /\ LET opensearch_url == getenv("OPENSEARCH_URL", LocalUrl)
           forced == ~HasLocalhost(opensearch_url)
           environ == IF forced THEN [env EXCEPT !["OPENSEARCH_URL"] = Some(LocalUrl)] ELSE env
           warned == IF forced THEN <<"log:Expected localhost:9200">> ELSE <<>>
       IN /\ env' = environ
          /\ IF environ["OPENSEARCH_URL"] = None
             THEN /\ enabled_tools' = None
                  /\ last' = [Idle EXCEPT !.op = "create_local_mcp_server",
                                          !.outcome = "raised", !.exc = "KeyError",
                                          !.message = <<"'", "OPENSEARCH_URL", "'">>,
                                          !.events = warned]
             ELSE /\ enabled_tools' = Some(ToolCatalog)
                  /\ last' = [Idle EXCEPT !.op = "create_local_mcp_server",
                                          !.outcome = "created",
                                          !.events = warned
                                              \o <<"log:Connecting to local OpenSearch cluster">>
                                              \o (IF generated
                                                  THEN <<"log:Enabled tools for local cluster">>
                                                  ELSE <<"log:Error generating tools",
                                                         "log:Using fallback: no tools available">>)]
    /\ UNCHANGED <<cluster_registry, arg_profile>>

\* create_local_mcp_server(): the environment is forced to the local cluster, the log
\* record reads os.environ['OPENSEARCH_URL'], and the catalog is generated or left empty
create_local_mcp_server(generated) ==
    /\ last.op = "idle"
    /\ enabled_tools = None
    /\ LET opensearch_url == getenv("OPENSEARCH_URL", LocalUrl)
           forced == ~HasLocalhost(opensearch_url)
           environ == IF forced THEN [env EXCEPT !["OPENSEARCH_URL"] = Some(LocalUrl)] ELSE env
           warned == IF forced THEN <<"log:Expected localhost:9200">> ELSE <<>>
       IN /\ env' = environ
          /\ IF environ["OPENSEARCH_URL"] = None
             THEN /\ enabled_tools' = None
                  /\ last' = [Idle EXCEPT !.op = "create_local_mcp_server",
                                          !.outcome = "raised", !.exc = "KeyError",
                                          !.message = <<"'", "OPENSEARCH_URL", "'">>,
                                          !.events = warned]
             ELSE /\ enabled_tools' = Some(IF generated THEN ToolCatalog ELSE << >>)
                  /\ last' = [Idle EXCEPT !.op = "create_local_mcp_server",
                                          !.outcome = "created",
                                          !.events = warned
                                              \o <<"log:Connecting to local OpenSearch cluster">>
                                              \o (IF generated
                                                  THEN <<"log:Enabled tools for local cluster">>
                                                  ELSE <<"log:Error generating tools",
                                                         "log:Using fallback: no tools available">>)]
    /\ UNCHANGED <<cluster_registry, arg_profile>>

\* the required fields a payload leaves out, in schema order
MissingFields(required, arguments) ==
    SelectSeq(ToolFields, LAMBDA f : f \in required /\ arguments[f] = None)

\* str(e) of the ValidationError tool['args_model'](**arguments) raises
ValidationMessage(missing) == <<"validation error, field required: ">> \o missing

\* what the tool's function raises, if it raises
OperationCause == <<"TransportError raised by the operation">>

\* call_tool(name, arguments) of create_local_mcp_server
streaming_call_tool(name, arguments, function) ==
    /\ last.op = "idle"
    /\ enabled_tools # None
    /\ LET tools == Val(enabled_tools)
           request == [Idle EXCEPT !.op = "streaming_call_tool", !.tool = name,
                                   !.args = Some(arguments)]
       IN last' =
            IF name \notin DOMAIN tools
            THEN [request EXCEPT !.outcome = "raised", !.exc = "ValueError",
                                 !.message = <<"Unknown or disabled tool: ", name>>]
            ELSE LET missing == MissingFields(tools[name].required, arguments)
                 IN IF missing # <<>>
                    THEN [request EXCEPT !.outcome = "raised", !.exc = "ValidationError",
                                         !.message = ValidationMessage(missing),
                                         !.events = <<"args_model:raise">>]
                    ELSE IF function = "raise"
                    THEN [request EXCEPT !.outcome = "raised", !.exc = "TransportError",
                                         !.message = OperationCause,
                                         !.request = Some([api |-> name, index |-> EmptyStr,
                                                           size |-> None]),
                                         !.events = <<"args_model:ok", "function:" \o name,
                                                      "operation:raise">>]
                    ELSE [request EXCEPT !.outcome = "replied",
                                         !.request = Some([api |-> name, index |-> EmptyStr,
                                                           size |-> None]),
                                         !.events = <<"args_model:ok", "function:" \o name>>,
                                         !.reply = Some(TextReply(<<"result of ", name>>))]
    /\ UNCHANGED <<cluster_registry, env, arg_profile, enabled_tools>>

StreamingArguments == [{"index", "query"} -> {None, Some(Str("logs-*"))}]

\* the order in which the catalog's dict yields its tools
ToolOrder == <<"ListIndexTool", "SearchIndexTool">>

\* list_tools() of create_local_mcp_server: one Tool per entry of enabled_tools
list_tools ==
    /\ last.op = "idle"
    /\ enabled_tools # None
    /\ last' = [Idle EXCEPT !.op = "list_tools", !.outcome = "replied",
                            !.reply = Some(TextReply(SelectSeq(ToolOrder,
                                LAMBDA name : name \in DOMAIN Val(enabled_tools))))]
    /\ UNCHANGED <<cluster_registry, env, arg_profile, enabled_tools>>

----------------------------------------------------------------------------
(* The server process: configuration, then requests *)

EnvUnset == [n \in EnvNames |-> None]

\* process environments the multi-cluster server is started in
StartEnvs ==
    {EnvUnset,
     [EnvUnset EXCEPT !["OPENSEARCH_URL"] = Some(RemoteUrl)],
     [EnvUnset EXCEPT !["OPENSEARCH_URL"] = Some(OtherUrl),
                      !["OPENSEARCH_USERNAME"] = Some(Str("envuser")),
                      !["OPENSEARCH_PASSWORD"] = Some(Str("envpass")),
                      !["OPENSEARCH_SSL_VERIFY"] = Some(StrFalse)]}

BareInfo ==
    [opensearch_url |-> RemoteUrl, opensearch_username |-> EmptyStr,
     opensearch_password |-> EmptyStr, aws_region |-> EmptyStr, iam_arn |-> EmptyStr,
     profile |-> EmptyStr, is_serverless |-> FALSE, verify_certs |-> None]

\* profiles a configuration file registers
ConfiguredInfos ==
    {[BareInfo EXCEPT !.verify_certs = Some(TRUE)],
     [BareInfo EXCEPT !.opensearch_username = Str("admin"), !.opensearch_password = Str("secret"),
                      !.iam_arn = Str("arn:role/search"), !.aws_region = Str("us-east-1"),
                      !.verify_certs = Some(FALSE)],
     [BareInfo EXCEPT !.opensearch_url = LocalUrl, !.iam_arn = Str("arn:role/search"),
                      !.profile = Str("awsdev"), !.is_serverless = TRUE]}

\* a configuration entry whose endpoint URL is missing
EmptyUrlInfo == [BareInfo EXCEPT !.opensearch_url = EmptyStr]

Selectors == {None} \cup {Some(n) : n \in Names}

\* the multi-cluster server and the simple local server; the local streaming server is
\* not created, and the history of constructed clients is not recorded
Init ==
    /\ cluster_registry = <<>>
    /\ env \in StartEnvs
    /\ arg_profile = None
    /\ last = Idle
    /\ enabled_tools = None
    /\ built = <<>>

Dispatch(selectors) ==
    \E args \in selectors :
        \E x \in Externals(ResolveCluster(args).cluster_info) : initialize_client(args, x)

SimpleCall ==
    \E name \in ToolNames \cup {"bogus_tool"} :
        \E arguments \in ArgumentChoices(name), ctor_ok \in BOOLEAN, backend \in {"ok", "raise"} :
            simple_call_tool(name, arguments, ctor_ok, backend)

Next ==
    \/ /\ \E name \in Names, info \in ConfiguredInfos \cup {EmptyUrlInfo} : Register(name, info)
       /\ UNCHANGED built
    \/ /\ \E profile \in AwsProfiles \ {EmptyStr} : set_profile(profile)
       /\ UNCHANGED built
    \/ /\ Dispatch(Selectors)
       /\ UNCHANGED built
    \/ /\ SimpleCall
       /\ UNCHANGED built
    \/ /\ Respond
       /\ UNCHANGED built

Spec == Init /\ [][Next]_vars

----------------------------------------------------------------------------
(* Resolution of one profile: every ClusterInfo, or no profile and every environment *)

Maybe(S) == {None} \cup {Some(v) : v \in S}

SslVerifyValues == {None, Some(StrFalseCap), Some(Str("0"))}

\* with a profile registered: AWS_PROFILE and OPENSEARCH_SSL_VERIFY vary freely; the
\* other variables are all unset or all set
ProfileEnvs ==
    {[n \in EnvNames |->
        CASE n = "AWS_PROFILE" -> p
          [] n = "AWS_REGION" -> IF shadow THEN Some(Str("ap-south-1")) ELSE None
          [] n = "OPENSEARCH_SSL_VERIFY" -> v
          [] n = "OPENSEARCH_URL" -> IF shadow THEN Some(OtherUrl) ELSE None
          [] n = "OPENSEARCH_USERNAME" -> IF shadow THEN Some(Str("envuser")) ELSE None
          [] n = "OPENSEARCH_PASSWORD" -> IF shadow THEN Some(Str("envpass")) ELSE None
          [] n = "AWS_IAM_ARN" -> IF shadow THEN Some(Str("arn:role/env")) ELSE None
          [] n = "AWS_OPENSEARCH_SERVERLESS" -> IF shadow THEN Some(StrTrueCap) ELSE None] :
        p \in Maybe({Str("envprofile")}), v \in SslVerifyValues, shadow \in BOOLEAN}

ImplicitEnvs ==
    {[n \in EnvNames |->
        CASE n = "AWS_PROFILE" -> p
          [] n = "AWS_REGION" -> r
          [] n = "OPENSEARCH_SSL_VERIFY" -> v
          [] n = "OPENSEARCH_URL" -> u
          [] n = "OPENSEARCH_USERNAME" -> un
          [] n = "OPENSEARCH_PASSWORD" -> pw
          [] n = "AWS_IAM_ARN" -> arn
          [] n = "AWS_OPENSEARCH_SERVERLESS" -> sl] :
        p \in Maybe({Str("envprofile")}), r \in Maybe({Str("ap-south-1")}),
        v \in SslVerifyValues, u \in Maybe({LocalUrl, RemoteUrl}),
        un \in Maybe({Str("envuser")}), pw \in Maybe({Str("envpass")}),
        arn \in Maybe({Str("arn:role/env")}), sl \in {None, Some(StrTrueCap), Some(StrFalse)}}

InitResolve ==
    /\ last = Idle
    /\ enabled_tools = None
    /\ built = <<>>
    /\ \/ /\ \E info \in ClusterInfos :
                cluster_registry = <<[name |-> Str("prod"), info |-> info]>>
          /\ env \in ProfileEnvs
          /\ arg_profile = None
       \/ /\ cluster_registry = <<>>
          /\ env \in ImplicitEnvs
          /\ arg_profile \in Maybe({Str("cliprofile")})

NextResolve ==
    \/ /\ Dispatch({None})
       /\ UNCHANGED built
    \/ /\ Respond
       /\ UNCHANGED built

SpecResolve == InitResolve /\ [][NextResolve]_vars

----------------------------------------------------------------------------
(* The local servers: the streaming server is created, then both answer call_tool *)

\* os.environ after load_env_config()
LocalEnvs ==
    {EnvUnset,
     [EnvUnset EXCEPT !["OPENSEARCH_URL"] = Some(LocalUrl)],
     [EnvUnset EXCEPT !["OPENSEARCH_URL"] = Some(RemoteUrl)]}

InitLocal ==
    /\ cluster_registry = <<>>
    /\ env \in LocalEnvs
    /\ arg_profile = None
    /\ last = Idle
    /\ enabled_tools = None
    /\ built = <<>>

StreamingCall ==
    \E name \in DOMAIN ToolCatalog \cup {"bogus_tool"} :
        \E arguments \in StreamingArguments, function \in {"ok", "raise"} :
            streaming_call_tool(name, arguments, function)

NextLocal ==
    \/ /\ \E generated \in BOOLEAN : create_local_mcp_server(generated)
       /\ UNCHANGED built
    \/ /\ StreamingCall
       /\ UNCHANGED built
    \/ /\ list_tools
       /\ UNCHANGED built
    \/ /\ SimpleCall
       /\ UNCHANGED built
    \/ /\ Respond
       /\ UNCHANGED built

SpecLocal == InitLocal /\ [][NextLocal]_vars

----------------------------------------------------------------------------
(* Client acquisition with the history of constructed clients recorded *)

MaxBuilt == 2

\* the history after a step: a request that ended with a client constructed one
Recorded ==
    IF last'.client # None
    THEN Append(built, [op |-> last'.op, cluster_info |-> last'.cluster_info,
                        client |-> Val(last'.client)])
    ELSE built

ProdOnly == {Some(Str("prod"))}

InitClients ==
    /\ \E info \in ConfiguredInfos : cluster_registry = <<[name |-> Str("prod"), info |-> info]>>
    /\ env \in StartEnvs
    /\ arg_profile = None
    /\ last = Idle
    /\ enabled_tools = None
    /\ built = <<>>

NextClients ==
    \/ /\ Len(built) < MaxBuilt
       /\ Dispatch(ProdOnly)
       /\ built' = Recorded
    \/ /\ Len(built) < MaxBuilt
       /\ SimpleCall
       /\ built' = Recorded
    \/ /\ \E info \in ConfiguredInfos : Register(Str("prod"), info)
       /\ UNCHANGED built
    \/ /\ Respond
       /\ UNCHANGED built

SpecClients == InitClients /\ [][NextClients]_vars

----------------------------------------------------------------------------
(* The verification flag: every spelling of OPENSEARCH_SSL_VERIFY, with and without a
   profile that sets verify_certs *)

\* start_streaming_server.py main(): os.environ['OPENSEARCH_SSL_VERIFY'] = 'false'
start_streaming_server ==
    /\ last.op = "idle"
    /\ env' = [env EXCEPT !["OPENSEARCH_SSL_VERIFY"] = Some(StrFalse)]
    /\ UNCHANGED <<cluster_registry, arg_profile, last, enabled_tools>>

\* values the variable has when the process starts
SslVerifySpellings ==
    {None, Some(EmptyStr), Some(Str("0")), Some(<<"n", "o">>), Some(StrTrue),
     Some(StrFalseCap), Some(<<"F", "A", "L", "S", "E">>),
     Some(<<"f", "a", "l", "s", "e", " ">>)}

VerifyEnvs ==
    {[EnvUnset EXCEPT !["OPENSEARCH_URL"] = Some(u), !["OPENSEARCH_SSL_VERIFY"] = v] :
        u \in {LocalUrl, RemoteUrl}, v \in SslVerifySpellings}

InitVerify ==
    /\ \/ cluster_registry = <<>>
       \/ \E t \in {None, Some(TRUE), Some(FALSE)} :
             cluster_registry =
                 <<[name |-> Str("prod"), info |-> [BareInfo EXCEPT !.verify_certs = t]]>>
    /\ env \in VerifyEnvs
    /\ arg_profile = None
    /\ last = Idle
    /\ enabled_tools = None
    /\ built = <<>>

NextVerify ==
    \/ /\ start_streaming_server
       /\ UNCHANGED built
    \/ /\ Dispatch({None})
       /\ UNCHANGED built
    \/ /\ Respond
       /\ UNCHANGED built

SpecVerify == InitVerify /\ [][NextVerify]_vars

----------------------------------------------------------------------------
(* Properties *)

Logged(e) == \E i \in 1..Len(last.events) : last.events[i] = e

\* every occurrence of e comes before every occurrence of an event of later
Before(e, later) ==
    \A i, j \in 1..Len(last.events) :
        (last.events[i] = e /\ last.events[j] \in later) => i < j

ConstructorCalls == {"OpenSearch:" \o site : site \in Sites \cup {"local"}}

Built == last.op = "initialize_client" /\ last.outcome = "client"

\* the build ended because the OpenSearch constructor raised outside a try block
\* (client construction, not authentication resolution)
ConstructorRaised == last.outcome = "raised" /\ last.exc = "OpenSearch"

ForProfile == last.op = "initialize_client" /\ last.cluster_info # None

HttpAuth == Val(last.client).http_auth

\* C1: a build for a profile with both username and password set returns a client whose
\* mechanism is basic and whose auth material is the username/password pair, whether or
\* not an IAM role ARN is set and whether or not assuming it succeeds.
C1_BasicHasPriority ==
    (ForProfile /\ HasBasic(last.cluster_info) /\ Built) =>
        /\ last.mechanism = "basic"
        /\ HttpAuth = Some(BasicAuth(last.cluster_info))

\* C2: a dispatch whose selector names a cluster absent from the registry ends in a
\* failure (the exception that stands for ClusterNotFound) and builds no client, neither
\* against the environment's endpoint nor against another cluster.
C2_AbsentClusterFails ==
    (/\ last.op = "initialize_client"
     /\ last.args # None
     /\ Truthy(Val(last.args))
     /\ Val(last.args) \notin RegistryNames) =>
        /\ last.outcome = "raised"
        /\ last.client = None

\* C3: for every profile with a non-empty endpoint URL and every outcome of the external
\* calls of resolution, resolution ends with one of the four mechanisms chosen and no
\* exception of the resolution reaches the caller.
C3_ResolutionNeverRaises ==
    (ForProfile /\ Truthy(OpensearchUrl(last.cluster_info)) /\ ~ConstructorRaised) =>
        /\ last.outcome = "client"
        /\ last.mechanism \in Sites

OnlyIam == ForProfile /\ Truthy(IamArn(last.cluster_info)) /\ ~HasBasic(last.cluster_info)

NoRegionAnywhere == Logged("Session:ok") /\ ~Truthy(last.aws_region)

EnvDisablesVerify ==
    env["OPENSEARCH_SSL_VERIFY"] # None /\ Lower(Val(env["OPENSEARCH_SSL_VERIFY"])) = StrFalse

\* C6: a client that speaks TLS is built with certificate verification disabled only if
\* the resolved profile sets verifyTLS to false, or leaves it unset while
\* OPENSEARCH_SSL_VERIFY is explicitly false.
C6_VerifyNeverSilentlyOff ==
    (last.client # None /\ Val(last.client).use_ssl /\ ~Val(last.client).verify_certs) =>
        \/ /\ last.cluster_info # None
           /\ Val(last.cluster_info).verify_certs = Some(FALSE)
        \/ /\ ~ProfileSetsVerify(last.cluster_info)
           /\ EnvDisablesVerify

\* C7: when the profile sets verifyTLS, the client's verify_certs is the profile's value
\* for every value of OPENSEARCH_SSL_VERIFY; the environment decides only when the
\* profile leaves it unset.
C7_ProfileVerifyWins ==
    (ForProfile /\ Built) =>
        Val(last.client).verify_certs =
            IF Val(last.cluster_info).verify_certs # None
            THEN Val(Val(last.cluster_info).verify_certs)
            ELSE ~EnvDisablesVerify

C7_Witness ==
    /\ ForProfile /\ Built
    /\ Val(last.cluster_info).verify_certs = Some(TRUE)
    /\ EnvDisablesVerify
    /\ Val(last.client).verify_certs

InsecureHttpsProfile ==
    /\ ForProfile
    /\ Val(last.cluster_info).verify_certs = Some(FALSE)
    /\ urlparse_scheme(Val(last.cluster_info).opensearch_url) = "https"

\* C8: for a profile with verifyTLS=false and an https URL, whatever mechanism is chosen,
\* the client has verify_certs false, the hostname check off and certificate mode
\* CERT_NONE, and the decision is logged before the client is constructed.
C8_InsecureClientIsLogged ==
    (InsecureHttpsProfile /\ Built) =>
        /\ ~Val(last.client).verify_certs
        /\ Val(last.client).ssl_assert_hostname = Some(FALSE)
        /\ Val(last.client).ssl_context = Some([check_hostname |-> FALSE, verify_mode |-> "CERT_NONE"])
        /\ Logged("log:[SSL] Applying SSL bypass configuration")
        /\ Before("log:[SSL] Applying SSL bypass configuration", ConstructorCalls)

C8_Witness ==
    /\ InsecureHttpsProfile /\ Built
    /\ last.mechanism = "ambient-aws"
    /\ Logged("log:[SSL] Applying SSL bypass configuration")

ImplicitChoice == "log:No cluster specified, using first available cluster"

\* C9: with at least one profile registered, a dispatch without a selector resolves to the
\* profile at the head of the registry and logs the implicit choice; registering or
\* re-registering profiles later never changes which name is at the head.
C9_DefaultIsFirstRegistered ==
    /\ [](( /\ last.op = "initialize_client"
            /\ ~(last.args # None /\ Truthy(Val(last.args)))
            /\ cluster_registry # <<>>) =>
             /\ last.cluster_info = Some(cluster_registry[1].info)
             /\ Logged(ImplicitChoice))
    /\ [][cluster_registry # <<>> => cluster_registry'[1].name = cluster_registry[1].name]_vars

C9_Witness ==
    /\ Len(cluster_registry) = 2
    /\ cluster_registry[1].info # cluster_registry[2].info
    /\ last.op = "initialize_client" /\ last.args = None
    /\ last.cluster_info = Some(cluster_registry[1].info)
    /\ Logged(ImplicitChoice)

ScenarioB ==
    /\ last.op = "initialize_client" /\ last.args = None
    /\ cluster_registry = <<>>
    /\ env["OPENSEARCH_URL"] = Some(LocalUrl)
    /\ env["OPENSEARCH_USERNAME"] = None /\ env["OPENSEARCH_PASSWORD"] = None
    /\ env["AWS_IAM_ARN"] = None
    /\ env["AWS_PROFILE"] = None /\ arg_profile = None
    /\ ~Logged("get_credentials:creds")

C11_EmptyUrlRejectedAtLoad ==
    /\ \A i \in 1..Len(cluster_registry) : Truthy(cluster_registry[i].info.opensearch_url)
    /\ (last.op = "register" /\ last.outcome = "raised") => last.exc = "ConfigError"
    /\ last.op = "initialize_client" => Truthy(OpensearchUrl(last.cluster_info))

CallToolOps == {"simple_call_tool", "streaming_call_tool"}

\* the handler was entered and, in the simple server, its client was constructed
Handling == last.op = "streaming_call_tool" \/ (last.op = "simple_call_tool" /\ last.client # None)

\* the tool names the handler that answered knows
Catalog == IF last.op = "simple_call_tool" THEN ToolNames ELSE DOMAIN Val(enabled_tools)

\* the handler ended in a failure: an error reply, or an exception handed to the MCP server
Failed ==
    \/ last.outcome = "replied" /\ Val(last.reply).is_error
    \/ last.outcome = "raised"

FailureText == IF last.outcome = "replied" THEN Val(last.reply).text ELSE last.message

Mentions(text, token) == \E i \in 1..Len(text) : text[i] = token

Invoked == last.request # None \/ \E i \in 1..Len(last.events) : last.events[i] = "operation:raise"

\* C12: whenever the operation a call_tool handler runs raises (backend error, timeout,
\* network failure), the handler returns a failure result that carries the operation name
\* and the stringified cause; the exception does not leave the handler.
C12_FailuresAreNormalized ==
    (last.op \in CallToolOps /\ Logged("operation:raise")) =>
        /\ last.outcome = "replied"
        /\ Val(last.reply).is_error
        /\ Mentions(Val(last.reply).text, last.tool)
        /\ \/ Val(last.reply).text = <<"Error executing ", last.tool, ": ">> \o BackendCause
           \/ Val(last.reply).text = <<"Error executing ", last.tool, ": ">> \o OperationCause

\* C13: a call naming an operation that is not in the handler's catalog ends in a failure
\* that says the operation is unknown and contains the literal requested name, and no
\* operation implementation is invoked for it.
C13_UnknownOperationIsNamed ==
    (Handling /\ last.tool \notin Catalog) =>
        /\ Failed
        /\ \/ FailureText = <<"Error executing ", last.tool, ": ", "Unknown tool: ", last.tool>>
           \/ FailureText = <<"Unknown or disabled tool: ", last.tool>>
        /\ ~Invoked

C13_Witness ==
    /\ last.op = "simple_call_tool" /\ last.client # None
    /\ last.tool = "bogus_tool"
    /\ Failed /\ Mentions(FailureText, "bogus_tool") /\ ~Invoked

C13_WitnessStreaming ==
    /\ last.op = "streaming_call_tool"
    /\ enabled_tools = Some(ToolCatalog)
    /\ last.tool = "bogus_tool"
    /\ last.exc = "ValueError" /\ Mentions(FailureText, "bogus_tool")

\* the fields the operation's schema declares required
RequiredFields(name) ==
    CASE name = "search_logs_by_keyword" -> {"keyword"}
      [] name = "search_logs_advanced" -> {"query"}
      [] name = "SearchIndexTool" -> {"index", "query"}
      [] OTHER -> {}

\* the payload of the request being answered, as the handler received it
Payload == Val(last.args)

\* the required fields of the called operation that the payload leaves out
Omitted == {f \in RequiredFields(last.tool) : Payload[f] = None}

\* C14: for every operation of a handler's catalog and every payload that omits a field
\* the operation's schema declares required, the call ends in a failure that names every
\* missing field, and the operation is not invoked against the backend.
C14_MissingFieldIsRejected ==
    (Handling /\ last.tool \in Catalog /\ Omitted # {}) =>
        /\ Failed
        /\ \A f \in Omitted : Mentions(FailureText, f)
        /\ ~Invoked
        /\ ~\E i \in 1..Len(last.events) : last.events[i] \in {"backend:search", "function:" \o last.tool}

C14_Witness ==
    /\ last.op = "simple_call_tool" /\ last.client # None
    /\ last.tool = "search_logs_by_keyword"
    /\ Payload["keyword"] = None
    /\ Val(last.reply).text =
           <<"Error executing ", "search_logs_by_keyword", ": ", "'", "keyword", "' is required for log search">>
    /\ last.request = None

\* scenario D on the streaming server: SearchIndexTool called without index
C14_WitnessScenarioD ==
    /\ last.op = "streaming_call_tool"
    /\ last.tool = "SearchIndexTool"
    /\ Payload["index"] = None /\ Payload["query"] # None
    /\ last.exc = "ValidationError"
    /\ Mentions(last.message, "index")
    /\ last.request = None

\* the handle fingerprint of an acquisition: the handler, the profile it resolved and the
\* client configuration (endpoint, TLS policy, auth material) it ended with
Fingerprint(l) == [op |-> l.op, cluster_info |-> l.cluster_info, client |-> Val(l.client)]

BuiltBefore(fp) == \E i \in 1..Len(built) : built[i] = fp

\* C15: an acquisition for a cluster whose profile and auth context are those of an earlier
\* acquisition returns the handle built then and constructs no second client; an
\* acquisition with a fingerprint not seen before (the profile's verifyTLS was changed)
\* constructs a new one.
C15_SecondAcquisitionIsCacheHit ==
    [][(last.op = "idle" /\ last'.client # None) =>
          IF BuiltBefore(Fingerprint(last'))
          THEN built' = built
          ELSE built' = Append(built, Fingerprint(last'))]_vars

\* C16: however the requests that first use a cluster are ordered, at most one client is
\* constructed for one fingerprint: no two constructed clients have the same profile,
\* client configuration and auth context.
C16_AtMostOneClientPerFingerprint ==
    \A i, j \in 1..Len(built) : built[i] = built[j] => i = j

\* the value of an environment variable, '' when it is unset
EnvDefault(name) == IF env[name] = None THEN EmptyStr ELSE Val(env[name])

\* the locals the build being answered computed
Resolved == Val(last.locals)

\* C17: the AWS profile name a resolution uses depends only on the resolved profile's
\* fields and the environment: it is the profile's own AWS profile name when that is set
\* and AWS_PROFILE otherwise, whatever set_profile calls were made before, with or without
\* a registered profile.
C17_ResolutionIgnoresSetProfile ==
    (last.op = "initialize_client" /\ last.locals # None) =>
        Resolved.profile =
            IF last.cluster_info # None /\ Truthy(Val(last.cluster_info).profile)
            THEN Val(last.cluster_info).profile
            ELSE EnvDefault("AWS_PROFILE")

\* field f of the registered profile, or the environment variable when the field is unset
ProfileOrEnv(f, name) ==
    IF Truthy(Val(last.cluster_info)[f]) THEN Val(last.cluster_info)[f] ELSE EnvDefault(name)

\* C18: for a registered profile, each of username, password, IAM role ARN, AWS profile
\* name and TLS-verify flag resolves to the profile's value when the profile sets it and to
\* the environment-derived default when it does not; a serverless flag set on the profile
\* is used as set (an unset serverless flag cannot be told from false).
C18_EnvDefaultsForUnsetFields ==
    (ForProfile /\ last.locals # None) =>
        /\ Resolved.opensearch_username = ProfileOrEnv("opensearch_username", "OPENSEARCH_USERNAME")
        /\ Resolved.opensearch_password = ProfileOrEnv("opensearch_password", "OPENSEARCH_PASSWORD")
        /\ Resolved.iam_arn = ProfileOrEnv("iam_arn", "AWS_IAM_ARN")
        /\ Resolved.profile = ProfileOrEnv("profile", "AWS_PROFILE")
        /\ Resolved.verify_certs =
               IF Val(last.cluster_info).verify_certs # None
               THEN Val(Val(last.cluster_info).verify_certs)
               ELSE ~EnvDisablesVerify
        /\ Val(last.cluster_info).is_serverless => Resolved.is_serverless_mode

SignedMechanisms == {"iam", "ambient-aws"}

\* the serverless flag of the resolved profile; AWS_OPENSEARCH_SERVERLESS read ignoring
\* case for the implicit environment profile
ServerlessFlag ==
    IF last.cluster_info # None THEN Val(last.cluster_info).is_serverless
    ELSE env["AWS_OPENSEARCH_SERVERLESS"] \in {Some(StrTrue), Some(StrTrueCap)}

AmbientAttempted ==
    last.op = "initialize_client" /\ Logged("log:[AWS CREDS] Using AWS credentials authentication")

\* C20 as claimed: when resolution reaches the ambient-AWS strategy and a region is
\* resolvable, it ends with mechanism ambient-aws, never none.
C20_RegionSufficesForAmbient ==
    (AmbientAttempted /\ Truthy(last.aws_region) /\ last.outcome = "client") =>
        last.mechanism = "ambient-aws"

\* C20 as amended: when resolution reaches the ambient-AWS strategy, it ends with
\* ambient-aws exactly when a region is resolvable, credential discovery returns
\* credentials and the signed client is constructed without an exception; in every other
\* case the strategy is abandoned and resolution goes on to the no-auth strategy.
C20_AmbientNeedsRegionAndCredentials ==
    AmbientAttempted =>
        /\ (last.outcome = "client" /\ last.mechanism = "ambient-aws") <=>
               /\ Truthy(last.aws_region)
               /\ Logged("get_credentials:creds")
               /\ ~Logged("OpenSearch:ambient-aws:raise")
        /\ ~(last.outcome = "client" /\ last.mechanism = "ambient-aws") =>
               /\ Logged("log:[NO AUTH] Using no authentication")
               /\ last.mechanism \in {"none", ""}
               /\ last.outcome = "raised" => last.exc = "OpenSearch"

C20_Witness ==
    /\ AmbientAttempted
    /\ Truthy(last.aws_region)
    /\ Logged("get_credentials:none")
    /\ last.outcome = "client" /\ last.mechanism = "none"

----------------------------------------------------------------------------
(* Frame, bounds and order of request handling *)

RequestOps == {"initialize_client", "simple_call_tool", "streaming_call_tool"}

\* C21: handling a request never changes the cluster registry or a profile stored in it:
\* across every step that takes a request (successful or failed) and every step that
\* hands its reply back, the registry, with every field of every profile, stays as it was.
C21_RequestsLeaveRegistryUnchanged ==
    [][((last.op = "idle" /\ last'.op \in RequestOps) \/ (last.op \in RequestOps /\ last' = Idle))
          => cluster_registry' = cluster_registry]_vars

\* a request resolved to the default of a full registry and a client was built
C21_Witness ==
    /\ Built
    /\ last.args = None
    /\ Len(cluster_registry) = MaxClusters
    /\ last.cluster_info = Some(cluster_registry[1].info)

\* a search_logs_by_keyword request that reached the backend call
KeywordSearchSent ==
    /\ last.op = "simple_call_tool"
    /\ last.tool = "search_logs_by_keyword"
    /\ last.request # None

\* C22: for every search_logs_by_keyword request the size sent to the backend is at most
\* 100: it is the requested size when that is 100 or less, 100 when the requested size
\* is larger, and 10 when the request gives no size.
C22_KeywordSearchSizeIsCapped ==
    KeywordSearchSent =>
        /\ Val(last.request).size # None
        /\ Val(Val(last.request).size) <= 100
        /\ Val(Val(last.request).size) =
              IF Payload["size"] = None THEN 10
              ELSE IF Val(Payload["size"]) <= 100 THEN Val(Payload["size"]) ELSE 100

\* a search asking for 101 results was sent with size 100
C22_Witness ==
    /\ KeywordSearchSent
    /\ Payload["size"] = Some(101)
    /\ Val(last.request).size = Some(100)

\* a search giving no size was sent with size 10
C22_WitnessDefault ==
    /\ KeywordSearchSent
    /\ Payload["size"] = None
    /\ Val(last.request).size = Some(10)

\* C23: whatever OPENSEARCH_URL is when the local streaming server is created (unset,
\* already localhost:9200, or another endpoint), create_local_mcp_server completes
\* without raising, and afterwards the endpoint in the environment is localhost:9200.
C23_CreationEndsOnLocalEndpoint ==
    last.op = "create_local_mcp_server" =>
        /\ last.outcome = "created"
        /\ env["OPENSEARCH_URL"] # None
        /\ HasLocalhost(Val(env["OPENSEARCH_URL"]))

\* the two terminal states of a request
Completed == last.outcome = "replied" /\ ~Val(last.reply).is_error

\* the events of the Execute step: argument validation and invocation
ExecuteEvents ==
    {"args_model:ok", "args_model:raise", "operation:raise"}
        \cup {"backend:" \o api : api \in {"search", "cat.indices", "cluster.health"}}
        \cup {"function:" \o name : name \in DOMAIN ToolCatalog}

\* C24: every request a call_tool handler takes goes through client acquisition, then
\* operation lookup, argument validation and invocation, then normalization, in that
\* order, and ends in exactly one of Completed and Failed; once a step has failed no
\* later step runs: a failed acquisition, lookup or validation invokes nothing, and an
\* invocation that raises is followed only by its conversion into a Failed result.
C24_StepsRunInOrder ==
    last.op \in CallToolOps =>
        /\ (Completed \/ Failed) /\ ~(Completed /\ Failed)
        /\ Before("OpenSearch:local", ExecuteEvents)
        /\ Before("args_model:ok", {"function:" \o name : name \in DOMAIN ToolCatalog})
        /\ Logged("OpenSearch:local:raise") => (Failed /\ ~Invoked /\ Len(last.events) = 1)
        /\ (Handling /\ last.tool \notin Catalog) => (Failed /\ ~Invoked /\ ~Logged("args_model:ok"))
        /\ (Handling /\ Omitted # {}) => (Failed /\ ~Invoked)
        /\ Logged("operation:raise") =>
              /\ last.events[Len(last.events)] = "operation:raise"
              /\ last.outcome = "replied"
              /\ Val(last.reply).is_error

\* the calls of a build that go to the network: STS role assumption and ambient
\* credential discovery
NetworkCalls ==
    {"assume_role:ok", "assume_role:raise",
     "get_credentials:creds", "get_credentials:none", "get_credentials:raise"}

\* C25: a build that ends with mechanism basic or none has made no network call:
\* neither STS role assumption nor ambient credential discovery was invoked during it.
C25_UnsignedBuildsMakeNoNetworkCall ==
    (Built /\ last.mechanism \in {"basic", "none"}) =>
        \A i \in 1..Len(last.events) : last.events[i] \notin NetworkCalls

----------------------------------------------------------------------------
(* Region, termination and auth material of a build *)

\* the session of the build being answered was created
SessionOpened == last.op = "initialize_client" /\ Logged("Session:ok")

\* the region by the claimed order: the profile's own, else the session's, else AWS_REGION
SigningRegion ==
    IF last.cluster_info # None /\ Truthy(Val(last.cluster_info).aws_region)
    THEN Val(last.cluster_info).aws_region
    ELSE IF Truthy(Val(last.session_region)) THEN Val(last.session_region)
    ELSE EnvDefault("AWS_REGION")

\* C26: the region a build signs with is the profile's explicit region when that is set,
\* otherwise the session's default region, otherwise AWS_REGION; when none of them gives
\* a region, the IAM strategy and the ambient strategy each fail over to the next
\* strategy, and no signer with an empty region is produced.
C26_RegionResolutionOrder ==
    SessionOpened =>
        /\ last.aws_region = SigningRegion
        /\ (Built /\ last.mechanism \in SignedMechanisms) =>
              /\ Val(HttpAuth).region = SigningRegion
              /\ Truthy(SigningRegion)
        /\ ~Truthy(SigningRegion) =>
              /\ last.mechanism \notin SignedMechanisms
              /\ Truthy(Resolved.iam_arn) =>
                    /\ Logged("log:[IAM AUTH] Failed to assume IAM role")
                    /\ ~Logged("assume_role:ok")
                    /\ Before("log:[IAM AUTH] Failed to assume IAM role",
                              {"log:[BASIC AUTH] Using basic authentication",
                               "log:[AWS CREDS] Using AWS credentials authentication"})
              /\ AmbientAttempted =>
                    /\ Logged("log:[AWS CREDS] Failed to get AWS credentials")
                    /\ Logged("log:[NO AUTH] Using no authentication")
              /\ (Built /\ HttpAuth # None) => Val(HttpAuth).kind = "tuple"

\* the profile gives no region, the session has none, and the build signs with AWS_REGION
C26_Witness ==
    /\ Built
    /\ last.mechanism = "ambient-aws"
    /\ last.cluster_info # None
    /\ last.session_region = Some(EmptyStr)
    /\ env["AWS_REGION"] = Some(Str("ap-south-1"))
    /\ Val(HttpAuth).region = Str("ap-south-1")

\* no region anywhere: the IAM strategy and the ambient strategy both failed over
C26_WitnessNoRegion ==
    /\ Built
    /\ Truthy(Resolved.iam_arn)
    /\ ~Truthy(last.aws_region)
    /\ last.mechanism = "none"

\* the record each strategy logs when it is attempted, in the claimed order
StrategyLogs ==
    <<"log:[IAM AUTH] Using IAM role authentication",
      "log:[BASIC AUTH] Using basic authentication",
      "log:[AWS CREDS] Using AWS credentials authentication",
      "log:[NO AUTH] Using no authentication">>

Count(events) == Cardinality({i \in 1..Len(last.events) : last.events[i] \in events})

\* the invocations of an operation by a call_tool handler
Invocations ==
    {"backend:" \o api : api \in {"search", "cat.indices", "cluster.health"}}
        \cup {"function:" \o name : name \in DOMAIN ToolCatalog}

\* C27: every build ends after attempting each strategy at most once, in the fixed order
\* IAM, basic, ambient, none without going back to an earlier one, and it ends either
\* with a client or with the empty-URL error; a call_tool handler invokes the operation
\* of a request at most once, failed or not.
C27_BuildEndsWithoutRetry ==
    /\ last.op = "initialize_client" =>
          /\ \A k \in 1..Len(StrategyLogs) : Count({StrategyLogs[k]}) <= 1
          /\ \A k, m \in 1..Len(StrategyLogs) :
                k < m => Before(StrategyLogs[k], {StrategyLogs[m]})
          /\ Count({"assume_role:ok", "assume_role:raise"}) <= 1
          /\ Count({"get_credentials:creds", "get_credentials:none", "get_credentials:raise"}) <= 1
          /\ Count(ConstructorCalls) <= 1
          /\ ~ConstructorRaised =>
                \/ last.outcome = "client"
                \/ last.outcome = "raised" /\ last.exc = "ValueError"
    /\ last.op \in CallToolOps => Count(Invocations) <= 1

\* C28: a client returned by the no-auth strategy carries no auth material, whatever
\* failed before it, including a failure after the IAM or the ambient signer had been
\* put into the client configuration.
C28_NoAuthClientCarriesNoAuth ==
    (Built /\ last.mechanism = "none") => HttpAuth = None

\* 'false' in every mix of upper and lower case
FalseSpellings ==
    {<<f, a, l, s2, e>> : f \in {"f", "F"}, a \in {"a", "A"}, l \in {"l", "L"},
                         s2 \in {"s", "S"}, e \in {"e", "E"}}

EnvSaysFalse ==
    env["OPENSEARCH_SSL_VERIFY"] # None /\ Val(env["OPENSEARCH_SSL_VERIFY"]) \in FalseSpellings

\* the resolved profile leaves verify_certs unset, or there is no profile
VerifyLeftToEnv ==
    /\ last.op = "initialize_client"
    /\ last.locals # None
    /\ last.cluster_info = None \/ Val(last.cluster_info).verify_certs = None

\* C29: when the resolved profile leaves verifyTLS unset, or there is no profile,
\* certificate verification is disabled exactly when OPENSEARCH_SSL_VERIFY is 'false' in
\* any mix of case; every other value (unset, empty, '0', 'no', 'true', 'false' with a
\* trailing blank) leaves it enabled.
C29_OnlyFalseDisablesVerify ==
    VerifyLeftToEnv =>
        /\ Resolved.verify_certs = ~EnvSaysFalse
        /\ Built => (Val(last.client).verify_certs = ~EnvSaysFalse)

\* no profile and OPENSEARCH_SSL_VERIFY=False: the client does not verify
C29_Witness ==
    /\ VerifyLeftToEnv /\ Built
    /\ last.cluster_info = None
    /\ env["OPENSEARCH_SSL_VERIFY"] = Some(StrFalseCap)
    /\ ~Val(last.client).verify_certs

\* a profile that leaves verify_certs unset and OPENSEARCH_SSL_VERIFY=no: the client verifies
C29_WitnessNo ==
    /\ VerifyLeftToEnv /\ Built
    /\ last.cluster_info # None
    /\ env["OPENSEARCH_SSL_VERIFY"] = Some(<<"n", "o">>)
    /\ Val(last.client).verify_certs

\* the start script has set the variable: the client does not verify
C29_WitnessStartScript ==
    /\ VerifyLeftToEnv /\ Built
    /\ env["OPENSEARCH_SSL_VERIFY"] = Some(StrFalse)
    /\ ~Val(last.client).verify_certs

----------------------------------------------------------------------------
(* The local streaming server after a failed tool generation *)

EmptyCatalog == enabled_tools # None /\ DOMAIN Val(enabled_tools) = {}

C30_WitnessListTools ==
    /\ EmptyCatalog
    /\ last.op = "list_tools"
    /\ Val(last.reply).text = <<>>

====
